---- MODULE Spec2Model ----
(***************************************************************************)
(* Model of the placeholder image service (src/main.go): one GET /:size    *)
(* request travelling through imageHandler.  Strings are sequences of      *)
(* one-character strings, so that len, indexing, slicing, Split, Atoi,     *)
(* ParseUint, ParseFloat and Fields are computed as the code computes them.*)
(***************************************************************************)
EXTENDS Integers, Sequences, FiniteSets, TLC

VARIABLES pc, req, width, height, text, fontSize, bg, fg, face, lines, data,
          fontFailed, encodeFailed, responses

vars == <<pc, req, width, height, text, fontSize, bg, fg, face, lines, data,
          fontFailed, encodeFailed, responses>>

----------------------------------------------------------------------------
(* Bounds of the enumerated request parameters.                            *)

MaxSizeLen == 4

MaxFontLen == 3

MaxTextLen == 5

MaxHexLen == 5

----------------------------------------------------------------------------
(* Strings.                                                                *)

SeqsUpTo(A, n) == UNION {[1..k -> A] : k \in 0..n}

\* s[from:to] of Go, 0-based and half-open, for 0 <= from <= to <= len(s).
Slice(s, from, to) == SubSeq(s, from + 1, to)

DigitChars == <<"0", "1", "2", "3", "4", "5", "6", "7", "8", "9">>

IsDigit(c) == \E i \in 1..10 : DigitChars[i] = c

DigitVal(c) == (CHOOSE i \in 1..10 : DigitChars[i] = c) - 1

\* Magnitudes of 10^8 and more are all represented by 10^8: the only use made
\* of a parsed int is clamp(_, 150, 3000), which maps them alike.
BigInt == 10^8

RECURSIVE DecValue(_)
DecValue(ds) ==
    IF ds = <<>> THEN 0
    ELSE LET p == DecValue(SubSeq(ds, 1, Len(ds) - 1))
         IN  IF p >= BigInt THEN BigInt
             ELSE IF p * 10 + DigitVal(ds[Len(ds)]) > BigInt THEN BigInt
             ELSE p * 10 + DigitVal(ds[Len(ds)])

RECURSIVE StripZeros(_)
StripZeros(ds) ==
    IF ds # <<>> /\ ds[1] = "0" THEN StripZeros(Tail(ds)) ELSE ds

\* Lexicographic a <= b for digit strings of equal length.
RECURSIVE DigitsLeq(_, _)
DigitsLeq(a, b) ==
    IF a = <<>> THEN TRUE
    ELSE IF DigitVal(a[1]) # DigitVal(b[1]) THEN DigitVal(a[1]) < DigitVal(b[1])
    ELSE DigitsLeq(Tail(a), Tail(b))

\* 2^63 - 1 and 2^63, the limits of a 64-bit int, as digit strings.
MaxInt64Digits == <<"9","2","2","3","3","7","2","0","3","6","8","5","4","7","7","5","8","0","7">>

MinInt64Digits == <<"9","2","2","3","3","7","2","0","3","6","8","5","4","7","7","5","8","0","8">>

FitsInt64(ds, neg) ==
    LET sig == StripZeros(ds)
    IN  \/ Len(sig) < 19
        \/ /\ Len(sig) = 19
           /\ DigitsLeq(sig, IF neg THEN MinInt64Digits ELSE MaxInt64Digits)

\* strconv.Atoi: an optional sign, then one or more decimal digits, in range.
Atoi(s) ==
    LET signed == s # <<>> /\ s[1] \in {"+", "-"}
        neg    == s # <<>> /\ s[1] = "-"
        ds     == IF signed THEN Tail(s) ELSE s
        ok     == /\ ds # <<>>
                  /\ \A i \in 1..Len(ds) : IsDigit(ds[i])
                  /\ FitsInt64(ds, neg)
    IN  [ok |-> ok, val |-> IF ok THEN (IF neg THEN 0 - DecValue(ds) ELSE DecValue(ds)) ELSE 0]

\* strings.Split(s, "x"): always at least one part.
RECURSIVE SplitAcc(_, _, _, _)
SplitAcc(s, i, cur, acc) ==
    IF i > Len(s) THEN Append(acc, cur)
    ELSE IF s[i] = "x" THEN SplitAcc(s, i + 1, <<>>, Append(acc, cur))
    ELSE SplitAcc(s, i + 1, Append(cur, s[i]), acc)

Split(s) == SplitAcc(s, 1, <<>>, <<>>)

\* The digits of fmt.Sprintf("%d", n) for n >= 0.
RECURSIVE Itoa(_)
Itoa(n) ==
    IF n < 10 THEN <<DigitChars[n + 1]>>
    ELSE Append(Itoa(n \div 10), DigitChars[(n % 10) + 1])

----------------------------------------------------------------------------
(* Dimension resolver.                                                     *)

clamp_NoFloor(value, min, max) ==
    IF value > max THEN max ELSE value

clamp(value, min, max) ==
    IF value < min THEN min
    ELSE IF value > max THEN max
    ELSE value

parseDimensions(dimensions) ==
    LET n == Len(dimensions)
        w == Atoi(dimensions[1])
        h == Atoi(dimensions[2])
        wd == IF n = 2 THEN (IF w.ok THEN w.val ELSE 150)
              ELSE IF n = 1 THEN (IF w.ok THEN w.val ELSE 150)
              ELSE 150
        ht == IF n = 2 THEN (IF h.ok THEN h.val ELSE 150)
              ELSE IF n = 1 THEN (IF w.ok THEN w.val ELSE 150)
              ELSE 150
    IN  <<clamp(wd, 150, 3000), clamp(ht, 150, 3000)>>

----------------------------------------------------------------------------
(* Color resolver.                                                         *)

HexChars == <<"0", "1", "2", "3", "4", "5", "6", "7", "8", "9",
              "a", "b", "c", "d", "e", "f", "A", "B", "C", "D", "E", "F">>

IsHex(c) == \E i \in 1..Len(HexChars) : HexChars[i] = c

HexVal(c) ==
    LET i == CHOOSE j \in 1..Len(HexChars) : HexChars[j] = c
    IN  IF i <= 16 THEN i - 1 ELSE i - 7

RECURSIVE HexValue(_)
HexValue(s) ==
    IF s = <<>> THEN 0
    ELSE HexValue(SubSeq(s, 1, Len(s) - 1)) * 16 + HexVal(s[Len(s)])

\* strconv.ParseUint(s, 16, 0): one or more hex digits, no sign, no prefix.
\* Every argument the code passes has at most 4 characters, so none is out of
\* range.
ParseUint16(s) ==
    LET ok == s # <<>> /\ \A i \in 1..Len(s) : IsHex(s[i])
    IN  [ok |-> ok, val |-> IF ok THEN HexValue(s) ELSE 0]

RGBA(r, g, b, a) == [R |-> r, G |-> g, B |-> b, A |-> a]

DefaultBg == RGBA(212, 212, 212, 255)

DefaultFg == RGBA(115, 115, 115, 255)

ZeroRGBA == RGBA(0, 0, 0, 0)

\* strings.Repeat(hex, 2)
Repeat2(s) == s \o s

\* The strings.Builder loop of hexToRGBA: every character written twice.
RECURSIVE Duplicated(_)
Duplicated(s) ==
    IF s = <<>> THEN <<>>
    ELSE <<s[1], s[1]>> \o Duplicated(Tail(s))

\* A slice expression s[from:to] panics when to > len(s).
SliceOk(s, from, to) == from <= to /\ to <= Len(s)

HexErr == [panic |-> FALSE, err |-> TRUE, color |-> ZeroRGBA]

HexPanic == [panic |-> TRUE, err |-> FALSE, color |-> ZeroRGBA]

\* Returns [panic, err, color]: a runtime panic (index or slice out of range),
\* or the error result, or the color.
hexToRGBA(hex) ==
    IF hex = <<>> THEN HexPanic
    ELSE
    LET h1 == IF hex[1] = "#" THEN Tail(hex) ELSE hex
        h2 == IF Len(h1) = 3 THEN Duplicated(h1) ELSE h1
        r  == ParseUint16(Slice(h2, 0, 2))
        g  == ParseUint16(Slice(h2, 2, 4))
        b  == ParseUint16(Slice(h2, 4, 6))
        al == ParseUint16(Slice(h2, 6, 10))
    IN  IF Len(h1) <= 2 \/ Len(h1) >= 9 THEN HexErr
        ELSE IF ~r.ok THEN HexErr
        ELSE IF ~g.ok THEN HexErr
        ELSE IF ~SliceOk(h2, 4, 6) THEN HexPanic
        ELSE IF ~b.ok THEN HexErr
        ELSE IF Len(h2) = 8
             THEN IF ~SliceOk(h2, 6, 10) THEN HexPanic
                  ELSE IF ~al.ok THEN HexErr
                  ELSE [panic |-> FALSE, err |-> FALSE,
                        color |-> RGBA(r.val % 256, g.val % 256, b.val % 256, al.val % 256)]
             ELSE [panic |-> FALSE, err |-> FALSE,
                   color |-> RGBA(r.val % 256, g.val % 256, b.val % 256, 255)]

\* Returns [panic, color].
parseHexColor(hex, defaultColor) ==
    IF Len(hex) = 0 THEN [panic |-> FALSE, color |-> defaultColor]
    ELSE
    LET h1 == IF hex[1] = "#" THEN Tail(hex) ELSE hex
        h2 == IF Len(h1) = 3 THEN Repeat2(h1) ELSE h1
        res == hexToRGBA(h2)
    IN  IF Len(h1) >= 3 /\ Len(h1) <= 8
        THEN IF res.panic THEN [panic |-> TRUE, color |-> ZeroRGBA]
             ELSE IF ~res.err THEN [panic |-> FALSE, color |-> res.color]
             ELSE [panic |-> FALSE, color |-> defaultColor]
        ELSE [panic |-> FALSE, color |-> defaultColor]

----------------------------------------------------------------------------
(* Text and font-size resolvers.                                           *)

\* A float64 is [cls, v]: cls "num" with v the value in thousandths, cls "inf"
\* with v the sign, or cls "nan".  The strings enumerated have at most three
\* fractional digits, and width/5 is a multiple of 0.2, so every value that
\* occurs is represented exactly.
Num(v) == [cls |-> "num", v |-> v]

NaN == [cls |-> "nan", v |-> 0]

Inf(sign) == [cls |-> "inf", v |-> sign]

UpperChars == <<"N", "A", "I", "F", "T", "Y">>

LowerChars == <<"n", "a", "i", "f", "t", "y">>

ToLower(c) ==
    IF \E i \in 1..Len(UpperChars) : UpperChars[i] = c
    THEN LowerChars[CHOOSE i \in 1..Len(UpperChars) : UpperChars[i] = c]
    ELSE c

LowerStr(s) == [i \in 1..Len(s) |-> ToLower(s[i])]

RECURSIVE Pow10(_)
Pow10(n) == IF n = 0 THEN 1 ELSE 10 * Pow10(n - 1)

\* Position of the first "." of s, or 0.
DotPos(s) ==
    IF \E i \in 1..Len(s) : s[i] = "."
    THEN CHOOSE i \in 1..Len(s) : s[i] = "." /\ \A j \in 1..(i - 1) : s[j] # "."
    ELSE 0

\* strconv.ParseFloat(s, 64) on strings without exponent, hex-float or
\* underscore syntax: "nan", [+-]"inf", [+-]"infinity" in any letter case, or
\* an optional sign and decimal digits with at most one ".", at least one digit.
ParseFloat(s) ==
    LET signed == s # <<>> /\ s[1] \in {"+", "-"}
        sign   == IF s # <<>> /\ s[1] = "-" THEN 0 - 1 ELSE 1
        body   == IF signed THEN Tail(s) ELSE s
        low    == LowerStr(body)
        dot    == DotPos(body)
        ip     == IF dot = 0 THEN body ELSE SubSeq(body, 1, dot - 1)
        fp     == IF dot = 0 THEN <<>> ELSE SubSeq(body, dot + 1, Len(body))
        fp3    == IF Len(fp) > 3 THEN SubSeq(fp, 1, 3) ELSE fp
        isDec  == /\ Len(ip) + Len(fp) >= 1
                  /\ \A i \in 1..Len(ip) : IsDigit(ip[i])
                  /\ \A i \in 1..Len(fp) : IsDigit(fp[i])
    IN  IF ~signed /\ low = <<"n", "a", "n">> THEN [ok |-> TRUE, val |-> NaN]
        ELSE IF low = <<"i", "n", "f">> \/ low = <<"i", "n", "f", "i", "n", "i", "t", "y">>
             THEN [ok |-> TRUE, val |-> Inf(sign)]
        ELSE IF isDec
             THEN [ok |-> TRUE,
                   val |-> Num(sign * (DecValue(ip) * 1000 + DecValue(fp3) * Pow10(3 - Len(fp3))))]
        ELSE [ok |-> FALSE, val |-> Num(0)]

parseFontSize(font, defaultSize) ==
    LET p == ParseFloat(font)
    IN  IF p.ok THEN p.val ELSE defaultSize

\* float64(i.width) / 5
setFont(font, w) == parseFontSize(font, Num(w * 200))

setText_Verbatim(t, w, h) == t

setText(t, w, h) ==
    IF Len(t) > 0 THEN t
    ELSE Itoa(w) \o <<"x">> \o Itoa(h)

setSize(size) == parseDimensions(Split(size))

----------------------------------------------------------------------------
(* Text layout.                                                            *)

\* unicode.IsSpace, on the characters that occur.
IsSpace(c) == c \in {" ", "\t", "\n"}

\* strings.Fields: the maximal runs of non-space characters, in order.
RECURSIVE FieldsAcc(_, _, _, _)
FieldsAcc(s, i, cur, acc) ==
    IF i > Len(s) THEN (IF cur = <<>> THEN acc ELSE Append(acc, cur))
    ELSE IF IsSpace(s[i])
         THEN FieldsAcc(s, i + 1, <<>>, IF cur = <<>> THEN acc ELSE Append(acc, cur))
    ELSE FieldsAcc(s, i + 1, Append(cur, s[i]), acc)

Fields(s) == FieldsAcc(s, 1, <<>>, <<>>)

\* The face built by truetype.NewFace is a table of glyph advances in 26.6
\* fixed point (1/64 pixel), at the scale of the font size, one per glyph
\* class.  goregular carries no kerning pairs for these glyphs.
GlyphClasses == {"narrow", "wide", "space"}

GlyphClass(c) ==
    IF IsSpace(c) THEN "space"
    ELSE IF c \in {"W", "M"} THEN "wide"
    ELSE "narrow"

\* Scaled advances before hinting: 20 10/64, 40 10/64 and 60 60/64 pixels.
Faces ==
    {f \in [GlyphClasses -> {1290, 2570, 3900}] :
        /\ f["wide"] = 3900
        /\ f["narrow"] # 3900
        /\ f["space"] # 3900}

\* Hinting: font.HintingFull quantises every glyph advance to whole pixels,
\* (a + 32) &^ 63.
Hinted(a) == ((a + 32) \div 64) * 64

GlyphAdvance(f, c) == Hinted(f[GlyphClass(c)])

\* font.Drawer.MeasureString: the sum of the advances, a fixed.Int26_6.
RECURSIVE MeasureString(_, _)
MeasureString(f, s) ==
    IF s = <<>> THEN 0
    ELSE GlyphAdvance(f, s[1]) + MeasureString(f, Tail(s))

\* One iteration of the loop of wrapText on the state [lines, currentLine].
\* drawer.MeasureString(testLine) / 64.0 divides a fixed.Int26_6 by the
\* constant 64 converted to fixed.Int26_6: an integer division.
WrapStep_MeasuresWord(st, word, f, maxWidth) ==
    LET testLine == (IF Len(st.currentLine) > 0 THEN st.currentLine \o <<" ">> ELSE <<>>) \o word
        currentWidth == MeasureString(f, word) \div 64
    IN  IF currentWidth > maxWidth
        THEN [lines |-> IF Len(st.currentLine) > 0 THEN Append(st.lines, st.currentLine)
                        ELSE st.lines,
              currentLine |-> word]
        ELSE [lines |-> st.lines, currentLine |-> testLine]

WrapStep(st, word, f, maxWidth) ==
    LET testLine == (IF Len(st.currentLine) > 0 THEN st.currentLine \o <<" ">> ELSE <<>>) \o word
        currentWidth == MeasureString(f, testLine) \div 64
    IN  IF currentWidth > maxWidth
        THEN [lines |-> IF Len(st.currentLine) > 0 THEN Append(st.lines, st.currentLine)
                        ELSE st.lines,
              currentLine |-> word]
        ELSE [lines |-> st.lines, currentLine |-> testLine]

RECURSIVE WrapLoop(_, _, _, _, _)
WrapLoop(words, i, st, f, maxWidth) ==
    IF i > Len(words) THEN st
    ELSE WrapLoop(words, i + 1, WrapStep(st, words[i], f, maxWidth), f, maxWidth)

wrapText(t, f, maxWidth) ==
    LET st == WrapLoop(Fields(t), 1, [lines |-> <<>>, currentLine |-> <<>>], f, maxWidth)
    IN  IF Len(st.currentLine) > 0 THEN Append(st.lines, st.currentLine) ELSE st.lines

padding == 30

----------------------------------------------------------------------------
(* Requests: the values of c.Param("size") and of c.Query("fontSize"),      *)
(* c.Query("text"), c.Query("bg"), c.Query("fg"); an absent query           *)
(* parameter is the empty string.                                          *)

Request(size, font, t, hexBg, hexFg) ==
    [size |-> size, fontSize |-> font, text |-> t, bg |-> hexBg, fg |-> hexFg]

SizeInputs ==
    SeqsUpTo({"3", "0", "x", "-", "a"}, MaxSizeLen) \cup
    { <<"3","0","0","x","1","0","0">>,
      <<"5","0","0","0","x","5","0","0","0">>,
      <<"2","0","0","x","a","b","c">>,
      <<"a","b","c","x","2","0","0">>,
      <<"3","0","0","x","1","0","0","x","5","0","0">>,
      <<"+","2","0","0">>,
      <<"2","9","9","9","x","3","0","0","1">>,
      <<"1","4","9","x","1","5","1">>,
      <<"9","2","2","3","3","7","2","0","3","6","8","5","4","7","7","5","8","0","7">>,
      <<"9","2","2","3","3","7","2","0","3","6","8","5","4","7","7","5","8","0","8">>,
      <<"9","2","2","3","3","7","2","0","3","6","8","5","4","7","7","5","8","0","8","x","2","0","0">>,
      <<"2","0","0","x","-","9","2","2","3","3","7","2","0","3","6","8","5","4","7","7","5","8","0","9">> }

FontInputs ==
    SeqsUpTo({"1", "0", "-", ".", "a"}, MaxFontLen) \cup
    { <<"N","a","N">>, <<"n","a","n">>, <<"I","n","f">>, <<"-","I","n","f">>,
      <<"+","i","n","f","i","n","i","t","y">>, <<"i","n","f","i">>,
      <<"1","2",".","5">>, <<"+","4","8">>,
      <<"n","o","t","a","n","u","m","b","e","r">> }

TextInputs ==
    SeqsUpTo({"a", "W", " "}, MaxTextLen) \cup
    { <<"a","a"," ","a","a"," ","a"," ","W">>, <<"\t","a","\n">> }

HexExtras ==
    { <<"a","3","a","3","a">>, <<"#","a","3","a","3","a">>,
      <<"f","f","0","0","0","0">>, <<"#","D","4","D","4","D","4">>,
      <<"a","a","b","b","c","c">>, <<"a","b","c","d","e","g">>,
      <<"a","b","c","d","e","f","0">>, <<"a","b","c","d","e","f","g">>,
      <<"#","#","a","a","b","b","c","c">>,
      <<"1","2","3","4","5","6","7","8">>, <<"#","1","2","3","4","5","6","8","0">>,
      <<"1","2","3","4","5","6","7","g">>, <<"g","2","3","4","5","6","7","8">>,
      <<"1","2","3","4","5","6","7","8","9">> }

HexInputs == SeqsUpTo({"#", "a", "3", "g"}, MaxHexLen) \cup HexExtras

FgInputs == [1..4 -> {"#", "a", "3", "g"}] \cup HexExtras

S150 == <<"1","5","0">>

S200 == <<"2","0","0">>

Requests ==
    {Request(s, <<>>, <<>>, <<>>, <<>>) : s \in SizeInputs} \cup
    {Request(s, f, <<>>, <<>>, <<>>) : s \in {S150, <<"a">>, <<"9","9","9","9">>}, f \in FontInputs} \cup
    {Request(s, <<>>, t, <<>>, <<>>) : s \in {S150, S200}, t \in TextInputs} \cup
    {Request(S150, <<>>, <<>>, h, <<>>) : h \in HexInputs} \cup
    {Request(S150, <<>>, <<>>, <<>>, h) : h \in FgInputs} \cup
    {Request(S200, <<>>, <<>>, <<"f","f","0","0","0","0">>, h) : h \in {g \in FgInputs : Len(g) >= 6}}

----------------------------------------------------------------------------
(* imageHandler, one action per statement.                                 *)

NoFloat == Num(0)

NoFace == [g \in GlyphClasses |-> 0]

NoData == [set |-> FALSE, width |-> 0, height |-> 0, bg |-> ZeroRGBA, fg |-> ZeroRGBA,
           lines |-> <<>>]

Response(status, ctype, kind, msg) ==
    [status |-> status, ctype |-> ctype, kind |-> kind, error |-> msg]

\* img := &Image{} for one request of the route GET /:size.
Init ==
    /\ pc = "start"
    /\ req \in Requests
    /\ width = 0
    /\ height = 0
    /\ text = <<>>
    /\ fontSize = NoFloat
    /\ bg = ZeroRGBA
    /\ fg = ZeroRGBA
    /\ face = NoFace
    /\ lines = <<>>
    /\ data = NoData
    /\ fontFailed = FALSE
    /\ encodeFailed = FALSE
    /\ responses = <<>>

SetSize ==
    /\ pc = "start"
    /\ width' = setSize(req.size)[1]
    /\ height' = setSize(req.size)[2]
    /\ pc' = "sized"
    /\ UNCHANGED <<req, text, fontSize, bg, fg, face, lines, data, fontFailed,
                   encodeFailed, responses>>

SetFont ==
    /\ pc = "sized"
    /\ fontSize' = setFont(req.fontSize, width)
    /\ pc' = "fonted"
    /\ UNCHANGED <<req, width, height, text, bg, fg, face, lines, data, fontFailed,
                   encodeFailed, responses>>

SetText ==
    /\ pc = "fonted"
    /\ text' = setText(req.text, width, height)
    /\ pc' = "texted"
    /\ UNCHANGED <<req, width, height, fontSize, bg, fg, face, lines, data, fontFailed,
                   encodeFailed, responses>>

\* i.bg is assigned before hexFg is parsed; a panic in either parse unwinds
\* the handler.
SetColors ==
    /\ pc = "texted"
    /\ LET b == parseHexColor(req.bg, DefaultBg)
           f == parseHexColor(req.fg, DefaultFg)
       IN  IF b.panic
           THEN pc' = "panic" /\ UNCHANGED <<bg, fg>>
           ELSE IF f.panic
           THEN pc' = "panic" /\ bg' = b.color /\ UNCHANGED fg
           ELSE pc' = "colored" /\ bg' = b.color /\ fg' = f.color
    /\ UNCHANGED <<req, width, height, text, fontSize, face, lines, data, fontFailed,
                   encodeFailed, responses>>

\* apply when freetype.ParseFont fails.
ApplyFontError ==
    /\ pc = "colored"
    /\ fontFailed' = TRUE
    /\ pc' = "applyErr"
    /\ UNCHANGED <<req, width, height, text, fontSize, bg, fg, face, lines, data,
                   encodeFailed, responses>>

\* apply when the font parses: the face is the one truetype.NewFace builds for
\* the font size, the lines are those of wrapText, and i.data is the image.
Apply ==
    /\ pc = "colored"
    /\ \E f \in Faces :
        /\ face' = f
        /\ lines' = wrapText(text, f, width - padding)
        /\ data' = [set |-> TRUE, width |-> width, height |-> height, bg |-> bg,
                    fg |-> fg, lines |-> lines']
    /\ pc' = "applied"
    /\ UNCHANGED <<req, width, height, text, fontSize, bg, fg, fontFailed,
                   encodeFailed, responses>>

RespondApplyError ==
    /\ pc = "applyErr"
    /\ responses' = Append(responses,
          Response(500, "application/json", "json", "Failed to create an image."))
    /\ pc' = "done"
    /\ UNCHANGED <<req, width, height, text, fontSize, bg, fg, face, lines, data,
                   fontFailed, encodeFailed>>

\* generate: png.Encode succeeds or returns an error.
Generate ==
    /\ pc = "applied"
    /\ \E ok \in BOOLEAN : encodeFailed' = ~ok
    /\ pc' = "generated"
    /\ UNCHANGED <<req, width, height, text, fontSize, bg, fg, face, lines, data,
                   fontFailed, responses>>

RespondEncodeError ==
    /\ pc = "generated"
    /\ encodeFailed
    /\ responses' = Append(responses,
          Response(500, "application/json", "json", "Failed to encode the image."))
    /\ pc' = "done"
    /\ UNCHANGED <<req, width, height, text, fontSize, bg, fg, face, lines, data,
                   fontFailed, encodeFailed>>

RespondData ==
    /\ pc = "generated"
    /\ ~encodeFailed
    /\ responses' = Append(responses, Response(200, "image/png", "png", ""))
    /\ pc' = "done"
    /\ UNCHANGED <<req, width, height, text, fontSize, bg, fg, face, lines, data,
                   fontFailed, encodeFailed>>

\* The Recovery middleware of gin.Default() answers a panicking handler with
\* status 500 and no body.
Recover ==
    /\ pc = "panic"
    /\ responses' = Append(responses, Response(500, "", "none", ""))
    /\ pc' = "done"
    /\ UNCHANGED <<req, width, height, text, fontSize, bg, fg, face, lines, data,
                   fontFailed, encodeFailed>>

imageHandler ==
    \/ SetSize
    \/ SetFont
    \/ SetText
    \/ SetColors
    \/ ApplyFontError
    \/ Apply
    \/ RespondApplyError
    \/ Generate
    \/ RespondEncodeError
    \/ RespondData

Next == imageHandler \/ Recover

Spec == Init /\ [][Next]_vars

----------------------------------------------------------------------------
(* Properties.                                                             *)

Sized == pc # "start"

FontSet == pc \notin {"start", "sized"}

ColorsReturned == pc \in {"colored", "panic"}

ColorsSet == pc \notin {"start", "sized", "fonted", "texted", "panic"}

Applied == pc \in {"applied", "generated", "done"} /\ data.set

OkResponse == Response(200, "image/png", "png", "")

\* C1: whatever the request parameters, when the font parses and the PNG
\* encoding succeeds the request ends with the HTTP 200 image/png response.
C1_AlwaysImage ==
    (pc = "done" /\ ~fontFailed /\ ~encodeFailed) => responses = <<OkResponse>>

\* The reference of C2: the parts around the "x" characters, each parsed as a
\* base-10 integer or 150, then clamped into [150, 3000].
CountX(s) == Cardinality({i \in 1..Len(s) : s[i] = "x"})

RefPart(part) == IF Atoi(part).ok THEN Atoi(part).val ELSE 150

RefClamp(v) == IF v < 150 THEN 150 ELSE IF v > 3000 THEN 3000 ELSE v

RefSize(s) ==
    LET k == CHOOSE i \in 1..Len(s) : s[i] = "x"
    IN  IF CountX(s) = 1
        THEN <<RefClamp(RefPart(SubSeq(s, 1, k - 1))),
               RefClamp(RefPart(SubSeq(s, k + 1, Len(s))))>>
        ELSE IF CountX(s) = 0
        THEN <<RefClamp(RefPart(s)), RefClamp(RefPart(s))>>
        ELSE <<150, 150>>

\* C2: for every size string setSize yields the reference result (two parts
\* parsed independently, one part used for both, more parts 150x150, a failed
\* parse 150), and width and height are integers in [150, 3000].
C2_SizeReference ==
    Sized => /\ <<width, height>> = RefSize(req.size)
             /\ width \in 150..3000
             /\ height \in 150..3000

\* A two-part size whose second part fails to parse has been resolved: the
\* first part is kept and the second becomes 150.
C2_Witness ==
    /\ pc = "sized"
    /\ req.size = <<"2","0","0","x","a","b","c">>
    /\ width = 200
    /\ height = 150

StripHash(h) == IF h # <<>> /\ h[1] = "#" THEN Tail(h) ELSE h

InvalidHex(h) ==
    /\ h # <<>>
    /\ \/ Len(StripHash(h)) \notin {3, 4, 6, 8}
       \/ \E i \in 1..Len(StripHash(h)) : ~IsHex(StripHash(h)[i])

\* C3: a non-empty color string of invalid length or with a non-hex character
\* resolves to exactly the default color of its role, without a panic.
C3_InvalidHexDefault ==
    ColorsReturned =>
        /\ (req.fg = <<>> /\ InvalidHex(req.bg)) => (pc = "colored" /\ bg = DefaultBg)
        /\ (req.bg = <<>> /\ InvalidHex(req.fg)) => (pc = "colored" /\ fg = DefaultFg)

HexDigitsOfLen(h, n) ==
    /\ Len(StripHash(h)) = n
    /\ \A i \in 1..n : IsHex(StripHash(h)[i])

\* C4: a 3-hex-digit color d1 d2 d3 resolves to R = 0x(d1 d1), G = 0x(d2 d2),
\* B = 0x(d3 d3), A = 255.
C4_ShortHexDoubled ==
    (ColorsReturned /\ req.fg = <<>> /\ HexDigitsOfLen(req.bg, 3)) =>
        /\ pc = "colored"
        /\ bg = RGBA(17 * HexVal(StripHash(req.bg)[1]), 17 * HexVal(StripHash(req.bg)[2]),
                     17 * HexVal(StripHash(req.bg)[3]), 255)

\* C5: an 8-hex-digit color RRGGBBAA resolves to the color whose channels are
\* the four hex bytes, alpha being the last one.
C5_EightDigitAlpha ==
    (ColorsReturned /\ req.fg = <<>> /\ HexDigitsOfLen(req.bg, 8)) =>
        /\ pc = "colored"
        /\ bg = RGBA(HexValue(SubSeq(StripHash(req.bg), 1, 2)),
                     HexValue(SubSeq(StripHash(req.bg), 3, 4)),
                     HexValue(SubSeq(StripHash(req.bg), 5, 6)),
                     HexValue(SubSeq(StripHash(req.bg), 7, 8)))

Positive(x) == x.cls \in {"num", "inf"} /\ x.v > 0

\* C6: after setSize and setFont the font size is positive: the caller's value
\* when the fontSize string parses as a positive float, the clamped width
\* divided by 5 otherwise.
C6_FontSizePositive ==
    FontSet =>
        /\ Positive(fontSize)
        /\ fontSize = IF ParseFloat(req.fontSize).ok /\ Positive(ParseFloat(req.fontSize).val)
                      THEN ParseFloat(req.fontSize).val
                      ELSE Num(width * 200)

RECURSIVE JoinSpaces(_)
JoinSpaces(ls) ==
    IF ls = <<>> THEN <<>>
    ELSE IF Len(ls) = 1 THEN ls[1]
    ELSE ls[1] \o <<" ">> \o JoinSpaces(Tail(ls))

WordsFit ==
    \A i \in 1..Len(Fields(text)) :
        MeasureString(face, Fields(text)[i]) <= (width - 30) * 64

\* C7: when every word of the text measures at most width - 30, the lines of
\* wrapText joined with single spaces are the words of the text in order, and
\* every line measures, in 1/64 pixel, at most width - 30 pixels.
C7_WrapKeepsWordsAndFits ==
    (Applied /\ WordsFit) =>
        /\ JoinSpaces(lines) = JoinSpaces(Fields(text))
        /\ \A i \in 1..Len(lines) : MeasureString(face, lines[i]) <= (width - 30) * 64

\* A text of three words has been wrapped into several lines, one of them
\* holding two words and measuring exactly width - 30.
C7_Witness ==
    /\ pc = "applied"
    /\ WordsFit
    /\ Len(Fields(text)) >= 3
    /\ Len(lines) >= 2
    /\ \E i \in 1..Len(lines) :
          /\ Len(Fields(lines[i])) >= 2
          /\ MeasureString(face, lines[i]) = (width - 30) * 64

\* C8: the lines wrapText produces for the resolved text are never an empty
\* sequence, and none of them is the empty string.
C8_LinesNonEmpty ==
    Applied => /\ Len(lines) >= 1
               /\ \A i \in 1..Len(lines) : lines[i] # <<>>

\* C9: a request ends with exactly one response, 200 with the PNG or 500 with
\* a JSON "error" object; 500 only after the font parse or the encoding
\* failed; generate does not run after apply failed.
C9_OneCompleteResponse ==
    /\ pc # "done" => responses = <<>>
    /\ pc = "done" =>
          /\ Len(responses) = 1
          /\ \/ responses[1] = OkResponse
             \/ /\ responses[1].status = 500
                /\ responses[1].kind = "json"
                /\ responses[1].error # ""
                /\ fontFailed \/ encodeFailed
    /\ fontFailed => (~data.set /\ ~encodeFailed /\ pc \in {"applyErr", "done"})

Req300x100 == Request(<<"3","0","0","x","1","0","0">>, <<>>, <<>>, <<>>, <<>>)

\* C10 as stated: /300x100 without query parameters resolves to width 300,
\* height 100, the default colors and the text "300x100".
C10_Example1 ==
    (req = Req300x100 /\ ColorsSet) =>
        /\ width = 300
        /\ height = 100
        /\ bg = DefaultBg
        /\ fg = DefaultFg
        /\ text = <<"3","0","0","x","1","0","0">>

\* C10 amended: /300x100 without query parameters resolves to width 300,
\* height 150 (100 raised to the floor), the default colors and the text
\* "300x150": text and dimensions are those of the clamped size.
C10_Example1Clamped ==
    (req = Req300x100 /\ ColorsSet) =>
        /\ width = 300
        /\ height = 150
        /\ bg = DefaultBg
        /\ fg = DefaultFg
        /\ text = Itoa(width) \o <<"x">> \o Itoa(height)
        /\ text = <<"3","0","0","x","1","5","0">>

C10_Witness == req = Req300x100 /\ pc = "colored"

====
